---- MODULE Spec2Model ----
(***************************************************************************)
(* Model of the concurrent crawl controller of site_word_frequency         *)
(* (finder.go): WordFinder.run, WordFinder.addLinkData and                 *)
(* WordFinder.getResults, with the worker goroutines, the relief           *)
(* goroutines and the cancellation signal of main().                       *)
(***************************************************************************)
EXTENDS Bags, FiniteSets, Integers, Sequences, TLC

\* ---------------------------------------------------------------- bounds
\* Number of distinct URLs of the site; URL 1 is the start URL.
NumURLs == 3
\* Longest list of links a page yields.
MaxLinks == 3
\* -concurrency: number of worker goroutines.
Concurrency == 2
\* -multiplier: channel capacity per worker.
Multiplier == 1
\* Number of distinct words the pages contain.
NumWords == 3
\* Largest per-page count of one word.
MaxCount == 2
\* Largest -tot_words value tried by the ranking.
MaxTotWords == 3

URLs == 1..NumURLs
startURL == 1
Words == 1..NumWords
Workers == 1..Concurrency

\* make(chan ..., (*multiplier)*(*concurrency))
ChanCap == Multiplier * Concurrency

\* The link lists a page of the bounded site can yield: up to MaxLinks links
\* in ascending URL order, repeated links and the start URL included.
LinkLists ==
    {s \in UNION {[1..n -> URLs] : n \in 0..MaxLinks} :
        \A i \in 1..(Len(s) - 1) : s[i] <= s[i + 1]}

\* The content of the site: the words of each page.  Page u holds word w
\* ((u + w) % MaxCount) + 1 times when u + w is even or w = 1.
PageWords(u) ==
    [w \in {x \in Words : x = 1 \/ (u + x) % 2 = 0} |-> ((u + w) % MaxCount) + 1]

EmptyHist == [w \in {} |-> 0]

NoRec == [url |-> 0, err |-> FALSE, wds |-> EmptyHist, links |-> <<>>]

VARIABLES
    ctx,        \* ctx.Done() is closed (cancel() was called)
    cpc,        \* position of the controller goroutine in run()
    cnt,        \* the loop counter of run()
    l,          \* the rest of the link batch being ranged over
    link,       \* the link the controller is trying to enqueue (0: none)
    visited,    \* visited map of run(), as the set of keys mapped to true
    tasks,      \* the tasks channel buffer
    tasksClosed,
    filter,     \* the wf.filter channel buffer
    filterClosed,
    interrupt,  \* wf.interrupt
    mu,         \* holder of wf.mu (0: unlocked)
    words,      \* wf.words
    errRecs,    \* wf.errRecs
    stats,      \* wf.stats
    wpc,        \* position of each worker goroutine
    wrec,       \* the record (and its page data) a worker holds
    relief,     \* bag of link batches held by goroutines of addLinkData
    enq,        \* history: how often each URL was sent into tasks
    processed,  \* history: bag of the pages (url, err, wds) passed to addLinkData
    received,   \* history: number of link batches the controller received
    panicked,   \* a goroutine sent on a closed channel (run-time panic)
    result      \* the -tot_words value and what getResults returned for it

vars == <<ctx, cpc, cnt, l, link, visited, tasks, tasksClosed, filter,
          filterClosed, interrupt, mu, words, errRecs, stats, wpc, wrec,
          relief, enq, processed, received, panicked, result>>

ctrlVars == <<cpc, cnt, l, link, visited, interrupt>>
chanVars == <<tasks, tasksClosed, filter, filterClosed>>
aggVars == <<mu, words, errRecs, stats>>
workerVars == <<wpc, wrec>>
histVars == <<enq, processed, received>>
endVars == <<panicked, result>>

\* ------------------------------------------------------------- helpers

\* Mutant of MergeWords: wf.words[k] = v instead of +=.
MergeWordsOverwrites(h, wds) ==
    [w \in DOMAIN h \cup DOMAIN wds |->
        IF w \in DOMAIN wds THEN wds[w] ELSE h[w]]

\* for k, v := range wds { wf.words[k] += v }
MergeWords(h, wds) ==
    [w \in DOMAIN h \cup DOMAIN wds |->
        (IF w \in DOMAIN h THEN h[w] ELSE 0) +
        (IF w \in DOMAIN wds THEN wds[w] ELSE 0)]

\* Mutant of PageResults: a failed fetch still yields words and links.
PageResultsErrorWithData(u) ==
    {[url |-> u, err |-> e, wds |-> PageWords(u), links |-> ls] :
        e \in BOOLEAN, ls \in LinkLists}

\* processLink: the outcome of fetching one page.  A failed fetch sets err
\* and yields no words and no links.
PageResults(u) ==
    {[url |-> u, err |-> TRUE, wds |-> EmptyHist, links |-> <<>>]} \cup
    {[url |-> u, err |-> FALSE, wds |-> PageWords(u), links |-> ls] :
        ls \in LinkLists}

Init ==
    /\ ctx = FALSE
    /\ cpc = "seed"
    /\ cnt = 0
    /\ l = <<>>
    /\ link = 0
    /\ visited = {}
    /\ tasks = <<>>
    /\ tasksClosed = FALSE
    /\ filter = <<>>
    /\ filterClosed = FALSE
    /\ interrupt = FALSE
    /\ mu = 0
    /\ words = EmptyHist
    /\ errRecs = <<>>
    /\ stats = [chanFree |-> 0, chanBlocked |-> 0]
    /\ wpc = [w \in Workers |-> "recv"]
    /\ wrec = [w \in Workers |-> NoRec]
    /\ relief = EmptyBag
    /\ enq = [u \in URLs |-> 0]
    /\ processed = EmptyBag
    /\ received = 0
    /\ panicked = FALSE
    /\ result = <<>>

\* ------------------------------------------------- the signal handler
\* cancel() of main's signal goroutine: closes ctx.Done().
Cancel ==
    /\ ~ctx
    /\ cpc # "returned"
    /\ ctx' = TRUE
    /\ UNCHANGED <<ctrlVars, chanVars, aggVars, workerVars, relief, histVars,
                   endVars>>

\* ------------------------------------------------------ the controller
\* tasks <- SearchRecord{url: wf.startURL.String()}, then cnt := 1.
CtrlSeed ==
    /\ cpc = "seed"
    /\ Len(tasks) < ChanCap
    /\ tasks' = Append(tasks, startURL)
    /\ enq' = [enq EXCEPT ![startURL] = @ + 1]
    /\ cnt' = 1
    /\ cpc' = "check"
    /\ UNCHANGED <<ctx, l, link, visited, interrupt, tasksClosed, filter,
                   filterClosed, aggVars, workerVars, relief, processed,
                   received, endVars>>

\* Mutant of CtrlCheck: the loop condition is cnt > 1.
CtrlCheckExitsEarly ==
    /\ cpc = "check"
    /\ cpc' = IF cnt > 1 THEN "recv" ELSE "closeTasks"
    /\ UNCHANGED <<ctx, cnt, l, link, visited, interrupt, chanVars, aggVars,
                   workerVars, relief, histVars, endVars>>

\* The loop condition cnt > 0.
CtrlCheck ==
    /\ cpc = "check"
    /\ cpc' = IF cnt > 0 THEN "recv" ELSE "closeTasks"
    /\ UNCHANGED <<ctx, cnt, l, link, visited, interrupt, chanVars, aggVars,
                   workerVars, relief, histVars, endVars>>

\* Mutant of CtrlRecv: break instead of continue when interrupted.
CtrlRecvBreaksOnInterrupt ==
    /\ cpc = "recv"
    /\ filter # <<>>
    /\ filter' = Tail(filter)
    /\ received' = received + 1
    /\ IF interrupt
       THEN /\ cnt' = cnt
            /\ cpc' = "closeTasks"
            /\ l' = Head(filter)
       ELSE /\ cnt' = cnt
            /\ cpc' = "range"
            /\ l' = Head(filter)
    /\ UNCHANGED <<ctx, link, visited, interrupt, tasks, tasksClosed,
                   filterClosed, aggVars, workerVars, relief, enq, processed,
                   endVars>>

\* Mutant of CtrlRecv: the test of wf.interrupt is missing.
CtrlRecvIgnoresInterrupt ==
    /\ cpc = "recv"
    /\ filter # <<>>
    /\ filter' = Tail(filter)
    /\ received' = received + 1
    /\ cnt' = cnt
    /\ cpc' = "range"
    /\ l' = Head(filter)
    /\ UNCHANGED <<ctx, link, visited, interrupt, tasks, tasksClosed,
                   filterClosed, aggVars, workerVars, relief, enq, processed,
                   endVars>>

\* l := <-wf.filter; if wf.interrupt { continue } (with the cnt-- of the
\* loop's post statement; the batch received stays in l, unread).
CtrlRecv ==
    /\ cpc = "recv"
    /\ filter # <<>>
    /\ filter' = Tail(filter)
    /\ received' = received + 1
    /\ IF interrupt
       THEN /\ cnt' = cnt - 1
            /\ cpc' = "check"
            /\ l' = Head(filter)
       ELSE /\ cnt' = cnt
            /\ cpc' = "range"
            /\ l' = Head(filter)
    /\ UNCHANGED <<ctx, link, visited, interrupt, tasks, tasksClosed,
                   filterClosed, aggVars, workerVars, relief, enq, processed,
                   endVars>>

\* Mutant of CtrlRange: cnt++ placed before the visited test.
CtrlRangeCountsVisited ==
    /\ cpc = "range"
    /\ IF l = <<>>
       THEN /\ cnt' = cnt - 1
            /\ cpc' = "check"
            /\ UNCHANGED <<l, link, visited>>
       ELSE /\ l' = Tail(l)
            /\ cnt' = cnt + 1
            /\ IF Head(l) \in visited
               THEN UNCHANGED <<cpc, link, visited>>
               ELSE /\ visited' = visited \cup {Head(l)}
                    /\ link' = Head(l)
                    /\ cpc' = "select"
    /\ UNCHANGED <<ctx, interrupt, chanVars, aggVars, workerVars, relief,
                   histVars, endVars>>

\* Mutant of CtrlRange: visited[link] = true is missing.
CtrlRangeNoInsert ==
    /\ cpc = "range"
    /\ IF l = <<>>
       THEN /\ cnt' = cnt - 1
            /\ cpc' = "check"
            /\ UNCHANGED <<l, link, visited>>
       ELSE /\ l' = Tail(l)
            /\ IF Head(l) \in visited
               THEN UNCHANGED <<cnt, cpc, link, visited>>
               ELSE /\ visited' = visited
                    /\ cnt' = cnt + 1
                    /\ link' = Head(l)
                    /\ cpc' = "select"
    /\ UNCHANGED <<ctx, interrupt, chanVars, aggVars, workerVars, relief,
                   histVars, endVars>>

\* One step of for _, link := range l: a visited link is skipped, a new one
\* is marked visited and counted (cnt++) before the select.  At the end of
\* the batch the post statement cnt-- runs.
CtrlRange ==
    /\ cpc = "range"
    /\ IF l = <<>>
       THEN /\ cnt' = cnt - 1
            /\ cpc' = "check"
            /\ UNCHANGED <<l, link, visited>>
       ELSE /\ l' = Tail(l)
            /\ IF Head(l) \in visited
               THEN UNCHANGED <<cnt, cpc, link, visited>>
               ELSE /\ visited' = visited \cup {Head(l)}
                    /\ cnt' = cnt + 1
                    /\ link' = Head(l)
                    /\ cpc' = "select"
    /\ UNCHANGED <<ctx, interrupt, chanVars, aggVars, workerVars, relief,
                   histVars, endVars>>

\* Mutant of CtrlSelectDone: the cnt-- of the cancelled send is missing.
CtrlSelectDoneKeepsCount ==
    /\ cpc = "select"
    /\ ctx
    /\ interrupt' = TRUE
    /\ link' = 0
    /\ cpc' = "range"
    /\ UNCHANGED <<ctx, cnt, l, visited, chanVars, aggVars, workerVars,
                   relief, histVars, endVars>>

\* Mutant of CtrlSelectDone: wf.interrupt is not set.
CtrlSelectDoneNoFlag ==
    /\ cpc = "select"
    /\ ctx
    /\ cnt' = cnt - 1
    /\ link' = 0
    /\ cpc' = "range"
    /\ UNCHANGED <<ctx, l, visited, interrupt, chanVars, aggVars, workerVars,
                   relief, histVars, endVars>>

\* Mutant of CtrlSelectDone: cnt is decremented twice.
CtrlSelectDoneCountsTwice ==
    /\ cpc = "select"
    /\ ctx
    /\ cnt' = cnt - 2
    /\ interrupt' = TRUE
    /\ link' = 0
    /\ cpc' = "range"
    /\ UNCHANGED <<ctx, l, visited, chanVars, aggVars, workerVars, relief,
                   histVars, endVars>>

\* Mutant of CtrlSelectDone: the case is taken whether or not ctx is done.
CtrlSelectDoneWithoutSignal ==
    /\ cpc = "select"
    /\ cnt' = cnt - 1
    /\ interrupt' = TRUE
    /\ link' = 0
    /\ cpc' = "range"
    /\ UNCHANGED <<ctx, l, visited, chanVars, aggVars, workerVars, relief,
                   histVars, endVars>>

\* case <-ctx.Done(): cnt--; wf.interrupt = true
CtrlSelectDone ==
    /\ cpc = "select"
    /\ ctx
    /\ cnt' = cnt - 1
    /\ interrupt' = TRUE
    /\ link' = 0
    /\ cpc' = "range"
    /\ UNCHANGED <<ctx, l, visited, chanVars, aggVars, workerVars, relief,
                   histVars, endVars>>

\* case tasks <- SearchRecord{url: link}
CtrlSelectSend ==
    /\ cpc = "select"
    /\ Len(tasks) < ChanCap
    /\ tasks' = Append(tasks, link)
    /\ enq' = [enq EXCEPT ![link] = @ + 1]
    /\ link' = 0
    /\ cpc' = "range"
    /\ UNCHANGED <<ctx, cnt, l, visited, interrupt, tasksClosed, filter,
                   filterClosed, aggVars, workerVars, relief, processed,
                   received, endVars>>

\* close(tasks)
CtrlCloseTasks ==
    /\ cpc = "closeTasks"
    /\ tasksClosed' = TRUE
    /\ cpc' = "closeFilter"
    /\ UNCHANGED <<ctx, cnt, l, link, visited, interrupt, tasks, filter,
                   filterClosed, aggVars, workerVars, relief, histVars,
                   endVars>>

\* close(wf.filter)
CtrlCloseFilter ==
    /\ cpc = "closeFilter"
    /\ filterClosed' = TRUE
    /\ cpc' = "wait"
    /\ UNCHANGED <<ctx, cnt, l, link, visited, interrupt, tasks, tasksClosed,
                   filter, aggVars, workerVars, relief, histVars, endVars>>

\* wg.Wait(), and the return of run().
CtrlWait ==
    /\ cpc = "wait"
    /\ \A w \in Workers : wpc[w] = "exited"
    /\ cpc' = "returned"
    /\ UNCHANGED <<ctx, cnt, l, link, visited, interrupt, chanVars, aggVars,
                   workerVars, relief, histVars, endVars>>

Controller ==
    \/ CtrlSeed
    \/ CtrlCheck
    \/ CtrlRecv
    \/ CtrlRange
    \/ CtrlSelectDone
    \/ CtrlSelectSend
    \/ CtrlCloseTasks
    \/ CtrlCloseFilter
    \/ CtrlWait

\* ---------------------------------------------------------- the workers
\* Mutant of WorkerRecv: the worker leaves its loop when tasks is empty,
\* closed or not.
WorkerRecvExitsWhenEmpty(w) ==
    /\ wpc[w] = "recv"
    /\ \/ /\ tasks # <<>>
          /\ tasks' = Tail(tasks)
          /\ wrec' = [wrec EXCEPT ![w] = [NoRec EXCEPT !.url = Head(tasks)]]
          /\ wpc' = [wpc EXCEPT ![w] = "fetch"]
       \/ /\ tasks = <<>>
          /\ wpc' = [wpc EXCEPT ![w] = "exited"]
          /\ UNCHANGED <<tasks, wrec>>
    /\ UNCHANGED <<ctx, ctrlVars, tasksClosed, filter, filterClosed, aggVars,
                   relief, histVars, endVars>>

\* for rec := range tasks: receive the next record, or leave the loop (and
\* run the deferred wg.Done()) when tasks is closed and empty.
WorkerRecv(w) ==
    /\ wpc[w] = "recv"
    /\ \/ /\ tasks # <<>>
          /\ tasks' = Tail(tasks)
          /\ wrec' = [wrec EXCEPT ![w] = [NoRec EXCEPT !.url = Head(tasks)]]
          /\ wpc' = [wpc EXCEPT ![w] = "fetch"]
       \/ /\ tasks = <<>>
          /\ tasksClosed
          /\ wpc' = [wpc EXCEPT ![w] = "exited"]
          /\ UNCHANGED <<tasks, wrec>>
    /\ UNCHANGED <<ctx, ctrlVars, tasksClosed, filter, filterClosed, aggVars,
                   relief, histVars, endVars>>

\* Mutant of ProcessLink: addLinkData goes on without waiting for wf.mu.
ProcessLinkNoWait(w) ==
    /\ wpc[w] = "fetch"
    /\ mu' = w
    /\ wpc' = [wpc EXCEPT ![w] = "locked"]
    /\ UNCHANGED <<ctx, ctrlVars, chanVars, words, errRecs, stats, wrec,
                   relief, histVars, endVars>>

\* rec.processLink(ctx, wf): the fetch of the page, up to the wf.mu.Lock()
\* of its call of addLinkData.  The page data the fetch produced is drawn
\* in AddLinkData, where it is first used.
ProcessLink(w) ==
    /\ wpc[w] = "fetch"
    /\ mu = 0
    /\ mu' = w
    /\ wpc' = [wpc EXCEPT ![w] = "locked"]
    /\ UNCHANGED <<ctx, ctrlVars, chanVars, words, errRecs, stats, wrec,
                   relief, histVars, endVars>>

\* Mutant of AddLinkDataOf: a blocking send of the links (a select without
\* the default case), inside the critical section.
AddLinkDataOfBlockingSend(w, r) ==
    /\ errRecs' = IF r.err
                  THEN Append(errRecs, [url |-> r.url, err |-> r.err])
                  ELSE errRecs
    /\ words' = MergeWords(words, r.wds)
    /\ processed' = processed (+) SetToBag({[url |-> r.url, err |-> r.err,
                                             wds |-> r.wds]})
    /\ ~filterClosed
    /\ Len(filter) < ChanCap
    /\ panicked' = panicked
    /\ mu' = 0
    /\ filter' = Append(filter, r.links)
    /\ stats' = [stats EXCEPT !.chanFree = @ + 1]
    /\ wpc' = [wpc EXCEPT ![w] = "recv"]
    /\ wrec' = [wrec EXCEPT ![w] = NoRec]

\* Mutant of AddLinkDataOf: the record is appended without the test of
\* sr.err.
AddLinkDataOfAlwaysRecords(w, r) ==
    /\ errRecs' = Append(errRecs, [url |-> r.url, err |-> r.err])
    /\ words' = MergeWords(words, r.wds)
    /\ processed' = processed (+) SetToBag({[url |-> r.url, err |-> r.err,
                                             wds |-> r.wds]})
    /\ IF filterClosed
       THEN /\ panicked' = TRUE
            /\ wpc' = [wpc EXCEPT ![w] = "exited"]
            /\ UNCHANGED <<filter, stats, mu, wrec>>
       ELSE /\ panicked' = panicked
            /\ mu' = 0
            /\ IF Len(filter) < ChanCap
               THEN /\ filter' = Append(filter, r.links)
                    /\ stats' = [stats EXCEPT !.chanFree = @ + 1]
                    /\ wpc' = [wpc EXCEPT ![w] = "recv"]
                    /\ wrec' = [wrec EXCEPT ![w] = NoRec]
               ELSE /\ stats' = [stats EXCEPT !.chanBlocked = @ + 1]
                    /\ wpc' = [wpc EXCEPT ![w] = "spawn"]
                    /\ wrec' = [wrec EXCEPT ![w] = r]
                    /\ UNCHANGED filter

\* The critical section of addLinkData(sr, wds, links) for the page data r:
\* the error record, the merge of the page's words, the non-blocking send of
\* the links and wf.mu.Unlock().
AddLinkDataOf(w, r) ==
    /\ errRecs' = IF r.err
                  THEN Append(errRecs, [url |-> r.url, err |-> r.err])
                  ELSE errRecs
    /\ words' = MergeWords(words, r.wds)
    /\ processed' = processed (+) SetToBag({[url |-> r.url, err |-> r.err,
                                             wds |-> r.wds]})
    /\ IF filterClosed
       THEN \* a send on a closed channel panics
            /\ panicked' = TRUE
            /\ wpc' = [wpc EXCEPT ![w] = "exited"]
            /\ UNCHANGED <<filter, stats, mu, wrec>>
       ELSE /\ panicked' = panicked
            /\ mu' = 0
            /\ IF Len(filter) < ChanCap
               THEN /\ filter' = Append(filter, r.links)
                    /\ stats' = [stats EXCEPT !.chanFree = @ + 1]
                    /\ wpc' = [wpc EXCEPT ![w] = "recv"]
                    /\ wrec' = [wrec EXCEPT ![w] = NoRec]
               ELSE /\ stats' = [stats EXCEPT !.chanBlocked = @ + 1]
                    /\ wpc' = [wpc EXCEPT ![w] = "spawn"]
                    /\ wrec' = [wrec EXCEPT ![w] = r]
                    /\ UNCHANGED filter

AddLinkData(w) ==
    /\ wpc[w] = "locked"
    /\ mu = w
    /\ \E r \in PageResults(wrec[w].url) : AddLinkDataOf(w, r)
    /\ UNCHANGED <<ctx, ctrlVars, tasks, tasksClosed, filterClosed, relief,
                   enq, received, result>>

\* Mutant of Spawn: addLinkData returns without starting the goroutine.
SpawnDropsBatch(w) ==
    /\ wpc[w] = "spawn"
    /\ wpc' = [wpc EXCEPT ![w] = "recv"]
    /\ wrec' = [wrec EXCEPT ![w] = NoRec]
    /\ UNCHANGED <<ctx, ctrlVars, chanVars, aggVars, relief, histVars,
                   endVars>>

\* go func() { wf.filter <- links }(): the goroutine is started and
\* addLinkData returns to the worker's loop.
Spawn(w) ==
    /\ wpc[w] = "spawn"
    /\ relief' = relief (+) SetToBag({wrec[w].links})
    /\ wpc' = [wpc EXCEPT ![w] = "recv"]
    /\ wrec' = [wrec EXCEPT ![w] = NoRec]
    /\ UNCHANGED <<ctx, ctrlVars, chanVars, aggVars, histVars, endVars>>

Worker(w) ==
    \/ WorkerRecv(w)
    \/ ProcessLink(w)
    \/ AddLinkData(w)
    \/ Spawn(w)

\* ------------------------------------------------- the relief goroutines
\* Mutant of ReliefSend: the goroutine sends its batch and stays pending.
ReliefSendKeeps ==
    \E b \in BagToSet(relief) :
        /\ relief' = relief
        /\ IF filterClosed
           THEN /\ panicked' = TRUE
                /\ UNCHANGED filter
           ELSE /\ Len(filter) < ChanCap
                /\ filter' = Append(filter, b)
                /\ panicked' = panicked
        /\ UNCHANGED <<ctx, ctrlVars, tasks, tasksClosed, filterClosed,
                       aggVars, workerVars, histVars, result>>

\* wf.filter <- links in a goroutine of addLinkData: blocks while the
\* channel is full.
ReliefSend ==
    \E b \in BagToSet(relief) :
        /\ relief' = relief (-) SetToBag({b})
        /\ IF filterClosed
           THEN /\ panicked' = TRUE
                /\ UNCHANGED filter
           ELSE /\ Len(filter) < ChanCap
                /\ filter' = Append(filter, b)
                /\ panicked' = panicked
        /\ UNCHANGED <<ctx, ctrlVars, tasks, tasksClosed, filterClosed,
                       aggVars, workerVars, histVars, result>>

\* ------------------------------------------------------------ the ranking
\* Mutant of Less: the comparison the other way round (ascending order).
LessAscending(kvs, i, j) == kvs[i].value < kvs[j].value

\* kvSorter.Less
Less(kvs, i, j) == kvs[j].value < kvs[i].value

\* sorter[i] = kvPair{k, v} for the keys of wf.words in some order, then
\* sort.Sort(sorter): every arrangement of the pairs in which no later
\* element is Less than an earlier one (sort.Sort is not stable, and the
\* iteration order of a map is unspecified).
SortOutcomes(h) ==
    LET n == Cardinality(DOMAIN h)
        orders == {o \in [1..n -> DOMAIN h] :
                      \A i, j \in 1..n : i # j => o[i] # o[j]}
        pairs(o) == [i \in 1..n |-> [key |-> o[i], value |-> h[o[i]]]]
    IN {pairs(o) : o \in {p \in orders :
            \A i, j \in 1..n : i < j => ~Less(pairs(p), j, i)}}

\* cnt := *totWords; if len(sorter) < cnt { cnt = len(sorter) };
\* return sorter[:cnt]
Truncate(sorter, totWords) ==
    LET c == IF Len(sorter) < totWords THEN Len(sorter) ELSE totWords
    IN SubSeq(sorter, 1, c)

\* wf.getResults() as called by showStatus after run() has returned.
GetResults ==
    /\ cpc = "returned"
    /\ \E totWords \in 0..MaxTotWords, sorter \in SortOutcomes(words) :
          result' = [n |-> totWords, top |-> Truncate(sorter, totWords)]
    /\ cpc' = "reported"
    /\ UNCHANGED <<ctx, cnt, l, link, visited, interrupt, chanVars, aggVars,
                   workerVars, relief, histVars, panicked>>

\* -------------------------------------------------------- specification
Program == Controller \/ (\E w \in Workers : Worker(w)) \/ ReliefSend

Next == Cancel \/ Program

Spec == Init /\ [][Next]_vars

\* The Go scheduler runs every goroutine that can take a step; cancel()
\* runs only if a signal arrives.
FairSpec ==
    /\ Spec
    /\ WF_vars(Controller)
    /\ \A w \in Workers : WF_vars(Worker(w))
    /\ WF_vars(ReliefSend)

\* The ranking on its own: run() has returned with some histogram over
\* Words, and showStatus calls getResults.
Histograms == UNION {[D -> 1..MaxCount] : D \in SUBSET Words}

RankInit ==
    /\ ctx \in BOOLEAN
    /\ cpc = "returned"
    /\ cnt = 0
    /\ l = <<>>
    /\ link = 0
    /\ visited = {}
    /\ tasks = <<>>
    /\ tasksClosed = TRUE
    /\ filter = <<>>
    /\ filterClosed = TRUE
    /\ interrupt = FALSE
    /\ mu = 0
    /\ words \in Histograms
    /\ errRecs = <<>>
    /\ stats = [chanFree |-> 1, chanBlocked |-> 0]
    /\ wpc = [w \in Workers |-> "exited"]
    /\ wrec = [w \in Workers |-> NoRec]
    /\ relief = EmptyBag
    /\ enq = [u \in URLs |-> IF u = startURL THEN 1 ELSE 0]
    /\ processed = EmptyBag
    /\ received = 1
    /\ panicked = FALSE
    /\ result = <<>>

RankNext == GetResults

RankSpec == RankInit /\ [][RankNext]_vars

\* ------------------------------------------------------------ properties
Terminated ==
    /\ cpc = "returned"
    /\ tasksClosed
    /\ filterClosed
    /\ \A w \in Workers : wpc[w] = "exited"

\* C1: under fair scheduling of the controller, the workers and the relief
\* goroutines, run() terminates for every site (with or without cycles and
\* page errors, cancelled or not): the loop exits, both channels are closed,
\* every worker exits and wg.Wait() returns; and until then some goroutine
\* can always take a step (no deadlock).
C1_Terminates ==
    /\ [](Terminated \/ ENABLED Program)
    /\ <>Terminated

\* C1 witness: run() has returned on a site with a cycle back to the start
\* URL and a failed page.
C1_Witness ==
    /\ Terminated
    /\ enq[startURL] = 2
    /\ errRecs # <<>>

\* ---- auxiliary definitions of the properties
RECURSIVE SumOver(_, _)
SumOver(S, f) ==
    IF S = {} THEN 0
    ELSE LET x == CHOOSE y \in S : TRUE
         IN f[x] + SumOver(S \ {x}, [y \in S \ {x} |-> f[y]])

\* Number of sends into tasks so far (the seed's included).
TotalEnq == SumOver(URLs, enq)

\* Workers holding a task they have not yet passed to addLinkData's
\* critical section.
Fetching == {w \in Workers : wpc[w] \in {"fetch", "locked"}}

\* Workers between the Unlock of the blocked branch and the go statement.
Spawning == {w \in Workers : wpc[w] = "spawn"}

SeqToBag(q) ==
    [b \in {q[i] : i \in DOMAIN q} |-> Cardinality({i \in DOMAIN q : q[i] = b})]

\* The link batches on their way to the controller: buffered in wf.filter,
\* held by a relief goroutine, or about to be handed to one.
Owed ==
    SeqToBag(filter) (+) relief (+)
    [b \in {wrec[w].links : w \in Spawning} |->
        Cardinality({w \in Spawning : wrec[w].links = b})]

\* Number of pages of URL u that went through addLinkData.
ProcessedOf(u) ==
    SumOver({p \in BagToSet(processed) : p.url = u},
            [p \in BagToSet(processed) |-> processed[p]])

AfterLoop == cpc \in {"closeTasks", "closeFilter", "wait", "returned"}

\* Component-wise sum of the histograms of the processed pages, computed
\* from the bag of pages (so independently of the order of submission).
SumHist(B) ==
    LET P == BagToSet(B)
    IN [w \in UNION {DOMAIN p.wds : p \in P} |->
           SumOver({p \in P : w \in DOMAIN p.wds},
                   [p \in P |-> IF w \in DOMAIN p.wds
                                THEN B[p] * p.wds[w] ELSE 0])]

\* C2: each time the controller evaluates cnt > 0, cnt is the number of
\* link batches still owed to it (tasks queued, tasks held by a worker,
\* batches buffered in filter, batches held by relief goroutines), which is
\* the number of tasks enqueued minus the batches consumed; so cnt = 0
\* exactly when every enqueued task has produced its one batch and the
\* controller has consumed it.
C2_CounterIsOwedBatches ==
    cpc = "check" =>
        /\ cnt = Len(tasks) + Cardinality(Fetching) + BagCardinality(Owed)
        /\ cnt = TotalEnq - received
        /\ BagCardinality(processed) =
               TotalEnq - Len(tasks) - Cardinality(Fetching)
        /\ (cnt = 0) <=>
              /\ BagCardinality(processed) = TotalEnq
              /\ received = TotalEnq

\* C2 witness: the loop condition is evaluated with three batches owed, one
\* of them held by a relief goroutine.
C2_Witness ==
    /\ cpc = "check"
    /\ cnt = 3
    /\ BagCardinality(relief) = 1
    /\ Len(filter) = ChanCap

\* C3 (as claimed): each URL is sent into tasks at most once, the seed's
\* send included.
C3_EnqueuedAtMostOnce == \A u \in URLs : enq[u] <= 1

\* C4 (as claimed): once ctx is done, nothing is sent into tasks any more.
C4_NoEnqueueAfterCancel == [][ctx => enq' = enq]_vars

\* C5: when the controller has left its loop after a cancellation, no task
\* is left in tasks or in the hands of a worker, every enqueued task has
\* gone through addLinkData, and each processed page's words and error
\* record are in wf.words and wf.errRecs.
C5_CancelDrains ==
    (ctx /\ AfterLoop) =>
        /\ tasks = <<>>
        /\ Fetching = {}
        /\ \A u \in URLs : ProcessedOf(u) = enq[u]
        /\ \A p \in BagToSet(processed) :
              /\ \A w \in DOMAIN p.wds :
                    w \in DOMAIN words /\ words[w] >= p.wds[w]
              /\ p.err => \E i \in DOMAIN errRecs : errRecs[i].url = p.url

\* C5 witness: run() has returned after the interrupt was noticed, with at
\* least three tasks enqueued and a failed page among them.
C5_Witness ==
    /\ cpc = "returned"
    /\ ctx
    /\ interrupt
    /\ TotalEnq >= 3
    /\ errRecs # <<>>

\* C6: every call of addLinkData adds exactly one batch to the batches owed
\* to the controller, every receive of the controller removes exactly the
\* batch it received, no other step changes the owed batches, and the
\* batches passed to addLinkData are those received plus those owed; none
\* is owed any more when the loop has exited.
C6_BatchDeliveredOnce ==
    [][/\ processed' # processed =>
              \E b \in LinkLists : Owed' = Owed (+) SetToBag({b})
       /\ received' # received =>
              /\ Owed = Owed' (+) SetToBag({Head(filter)})
              /\ ~interrupt => l' = Head(filter)
       /\ (processed' = processed /\ received' = received) => Owed' = Owed
       /\ BagCardinality(processed') = received' + BagCardinality(Owed')
       /\ AfterLoop' => Owed' = EmptyBag]_vars

\* C6 witness: run() has returned after some batch went through a relief
\* goroutine.
C6_Witness ==
    /\ cpc = "returned"
    /\ stats.chanBlocked >= 1
    /\ stats.chanFree >= 1
    /\ relief = EmptyBag

\* C7: when run() has returned, wf.words is the component-wise sum of the
\* histograms of the processed pages, whatever the order in which the
\* workers submitted them.
C7_HistogramIsSum == cpc = "returned" => words = SumHist(processed)

\* C7 witness: run() has returned after at least three pages with words
\* were merged.
C7_Witness ==
    /\ cpc = "returned"
    /\ BagCardinality(processed) >= 3
    /\ \E w \in DOMAIN words : words[w] >= 3

\* C8: wf.errRecs holds exactly one entry for every processed page with an
\* error and none for a page without; when run() has returned every
\* enqueued task has been processed, and if the only fetch of the start URL
\* failed, wf.errRecs is that one record and wf.words is empty.
C8_ErrorsRecorded ==
    /\ \A u \in URLs :
          Cardinality({i \in DOMAIN errRecs : errRecs[i].url = u}) =
          SumOver({p \in BagToSet(processed) : p.url = u /\ p.err},
                  [p \in BagToSet(processed) |-> processed[p]])
    /\ \A i \in DOMAIN errRecs : errRecs[i].err
    /\ cpc = "returned" =>
          /\ \A u \in URLs : ProcessedOf(u) = enq[u]
          /\ (enq[startURL] = 1 /\
              \E p \in BagToSet(processed) : p.url = startURL /\ p.err) =>
                 /\ errRecs = <<[url |-> startURL, err |-> TRUE]>>
                 /\ words = EmptyHist

\* C8 witness: run() has returned with a failed page recorded and other
\* pages merged.
C8_Witness ==
    /\ cpc = "returned"
    /\ Len(errRecs) = 1
    /\ BagCardinality(processed) >= 3

C10_TopN ==
    cpc = "reported" =>
        LET top == result.top
            n == Len(top)
            keys == {top[i].key : i \in 1..n}
            d == Cardinality(DOMAIN words)
        IN /\ n = IF result.n < d THEN result.n ELSE d
           /\ Cardinality(keys) = n
           /\ \A i \in 1..n :
                 top[i].key \in DOMAIN words /\ top[i].value = words[top[i].key]
           /\ \A i, j \in 1..n : i < j => top[i].value >= top[j].value
           /\ \A w \in DOMAIN words \ keys :
                 \A i \in 1..n : words[w] <= top[i].value

\* C10 witness: fewer pairs are asked for than there are words, and a word
\* left out ties with a returned one.
C10_Witness ==
    /\ cpc = "reported"
    /\ result.n = 2
    /\ Cardinality(DOMAIN words) = 3
    /\ \E w \in DOMAIN words :
          /\ \A i \in 1..Len(result.top) : result.top[i].key # w
          /\ words[w] = result.top[2].value

\* The controller takes the cancellation case of its select in this step.
CancelWins == cpc = "select" /\ cpc' = "range" /\ enq' = enq

\* C11 (as claimed): when the loop exits after ctx was done, wf.interrupt is
\* true.
C11_CancelledRunIsFlagged ==
    [][(ctx /\ ~AfterLoop /\ AfterLoop') => interrupt']_vars

\* C11 (amended): when the controller's select takes the cancellation case,
\* wf.interrupt becomes true and stays true until run() has returned, and
\* wf.interrupt is true only if ctx is done.
C11_ObservedCancelIsFlagged ==
    [][/\ CancelWins => interrupt'
       /\ interrupt => interrupt'
       /\ interrupt' => ctx']_vars

\* C11 witness: run() has returned with wf.interrupt set.
C11_Witness ==
    /\ cpc = "returned"
    /\ interrupt
    /\ ctx

\* C12: once the loop has exited (so when tasks and wf.filter are closed),
\* both channels are empty, no worker holds a task or the mutex or is about
\* to start a relief goroutine, no relief goroutine has a send pending, and
\* no goroutine has sent on a closed channel.
C12_CloseIsSafe ==
    /\ AfterLoop =>
          /\ tasks = <<>>
          /\ filter = <<>>
          /\ Fetching = {}
          /\ Spawning = {}
          /\ relief = EmptyBag
          /\ mu = 0
    /\ (tasksClosed \/ filterClosed) => AfterLoop
    /\ ~panicked

\* C12 witness: both channels are closed in an interrupted run in which at
\* least three tasks were enqueued.
C12_Witness ==
    /\ cpc = "wait"
    /\ tasksClosed
    /\ filterClosed
    /\ interrupt
    /\ TotalEnq >= 3

\* C13: cnt is never negative, and it is at least 1 while the controller is
\* blocked in the receive from wf.filter.
C13_CounterNotNegative ==
    /\ cnt >= 0
    /\ cpc = "recv" => cnt >= 1

\* C13 witness: the controller waits for the last batch of an interrupted
\* run with nothing to receive yet.
C13_Witness ==
    /\ cpc = "recv"
    /\ cnt = 1
    /\ interrupt
    /\ filter = <<>>

\* C14: addLinkData never waits for wf.filter: a worker inside the critical
\* section can always complete it, whatever wf.filter holds and whatever the
\* controller is doing, and it leaves the section either done (back at its
\* receive from tasks) or with the batch to hand to a new goroutine, which
\* it can always start; a worker back at its receive can take a queued task.
C14_WorkerNeverWaitsForFilter ==
    \A w \in Workers :
        /\ wpc[w] = "locked" => ENABLED AddLinkData(w)
        /\ wpc[w] = "spawn" => ENABLED Spawn(w)
        /\ (wpc[w] = "recv" /\ tasks # <<>>) => ENABLED WorkerRecv(w)

\* C14 witness: wf.filter is full, the controller is not receiving, a batch
\* went to a relief goroutine and the worker is back at its receive.
C14_Witness ==
    /\ cpc # "recv"
    /\ Len(filter) = ChanCap
    /\ relief # EmptyBag
    /\ \E w \in Workers : wpc[w] = "recv"

\* C15: wf.words, wf.errRecs and wf.stats change only in a step of the
\* worker that holds wf.mu, which leaves its critical section in that step;
\* at most one worker is in the critical section, it is the holder of wf.mu,
\* and the mutex was released after either branch of the select: no worker
\* about to start a relief goroutine, and none outside addLinkData, holds it.
C15_MutexGuardsAggregates ==
    [][/\ (words' # words \/ errRecs' # errRecs \/ stats' # stats) =>
              /\ mu \in Workers
              /\ wpc[mu] = "locked"
              /\ wpc'[mu] \in {"recv", "spawn"}
              /\ mu' = 0
       /\ Cardinality({w \in Workers : wpc'[w] = "locked"}) <= 1
       /\ \A w \in Workers : wpc'[w] = "locked" <=> mu' = w]_vars

\* C15 witness: one worker is in the critical section while another waits
\* for the mutex.
C15_Witness ==
    \E w1, w2 \in Workers :
        /\ wpc[w1] = "locked"
        /\ mu = w1
        /\ wpc[w2] = "fetch"

\* C16: once wf.interrupt is true, every iteration the controller starts
\* consumes one batch and decrements cnt by one, without reading the batch:
\* visited and tasks are unchanged and nothing is enqueued.
C16_InterruptedIterationOnlyDrains ==
    [][(interrupt /\ cpc = "recv" /\ cpc' # "recv") =>
          /\ filter' = Tail(filter)
          /\ received' = received + 1
          /\ cnt' = cnt - 1
          /\ cpc' = "check"
          /\ visited' = visited
          /\ tasks' = tasks
          /\ enq' = enq]_vars

\* C16 witness: an interrupted iteration has consumed a batch with links in
\* it without reading them.
C16_Witness ==
    /\ interrupt
    /\ cpc = "check"
    /\ l # <<>>
    /\ \E i \in DOMAIN l : l[i] \notin visited

\* The number of times the loop of run() has enqueued u: the sends of u on
\* tasks, less the send of the seed before the loop.
LoopEnq(u) == enq[u] - (IF u = startURL /\ cpc # "seed" THEN 1 ELSE 0)

\* C17 as stated: every URL in visited has been enqueued (the link the
\* controller holds at its select, whose enqueue is still being attempted,
\* is let off).
C17_VisitedIsEnqueued ==
    \A u \in visited : link = u \/ enq[u] >= 1

\* C17: visited never loses an element; an insertion adds one URL that was
\* not in it and is the step that takes the controller to the select for
\* that URL, with nothing enqueued yet; every enqueue of the loop sends the
\* URL inserted last, which is in visited; the loop enqueues a URL at most
\* once; and a URL in visited either has been enqueued by the loop, or is at
\* the select, or lost the select to cancellation and never was enqueued.
C17_VisitedIsAttemptedSet ==
    [][/\ visited \subseteq visited'
       /\ visited' # visited =>
              \E u \in URLs \ visited :
                  /\ visited' = visited \cup {u}
                  /\ cpc' = "select"
                  /\ link' = u
                  /\ enq' = enq
                  /\ tasks' = tasks
       /\ (cpc = "select" /\ enq' # enq) =>
              /\ link \in visited
              /\ enq' = [enq EXCEPT ![link] = @ + 1]
              /\ tasks' = Append(tasks, link)
       /\ \A u \in URLs :
              /\ LoopEnq(u)' <= 1
              /\ LoopEnq(u)' >= 1 => u \in visited'
       /\ \A u \in visited' :
              \/ LoopEnq(u)' = 1
              \/ link' = u
              \/ interrupt' /\ ctx']_vars

\* C17 witness: one URL of visited was enqueued by the loop and another lost
\* its select to cancellation.
C17_Witness ==
    /\ interrupt
    /\ \E u, v \in visited :
           /\ LoopEnq(u) = 0
           /\ link # u
           /\ LoopEnq(v) = 1

\* C18: a worker leaves its loop only from the receive on tasks, with tasks
\* closed and empty; the step that records a page error takes the worker
\* back to its loop (directly or through the start of a relief goroutine);
\* and while tasks is open every worker is receiving or processing.
C18_WorkerExitsOnlyOnClose ==
    [][/\ \A w \in Workers :
              (wpc[w] # "exited" /\ wpc'[w] = "exited") =>
                  /\ wpc[w] = "recv"
                  /\ tasksClosed
                  /\ tasks = <<>>
       /\ \A w \in Workers :
              (wpc[w] = "locked" /\ errRecs' # errRecs) =>
                  wpc'[w] \in {"recv", "spawn"}
       /\ ~tasksClosed' =>
              \A w \in Workers :
                  wpc'[w] \in {"recv", "fetch", "locked", "spawn"}]_vars

\* C18 witness: a worker has exited, on the closed and empty tasks channel,
\* in a run that recorded a page error.
C18_Witness ==
    /\ errRecs # <<>>
    /\ tasksClosed
    /\ tasks = <<>>
    /\ \E w \in Workers : wpc[w] = "exited"

\* C19: the relief goroutines with a pending send plus the batches buffered
\* in wf.filter are at most the tasks enqueued less the batches the
\* controller has received, hence at most the tasks enqueued.
C19_ReliefBounded ==
    /\ BagCardinality(relief) + Len(filter) <= TotalEnq - received
    /\ BagCardinality(relief) + Len(filter) <= TotalEnq

\* C19 witness: wf.filter is full, a relief goroutine is pending, and the
\* bound is met with equality.
C19_Witness ==
    /\ relief # EmptyBag
    /\ Len(filter) = ChanCap
    /\ BagCardinality(relief) + Len(filter) = TotalEnq - received

\* C20: wf.interrupt changes only in the controller's step out of its
\* select, with ctx done, and only to true; it is never reset; it is false
\* as long as ctx is not done, so a run without cancellation returns with
\* it false; the cnt++ of a link is the step that reaches the select, cnt
\* stays as it is while the controller waits there, and when cancellation
\* wins the select cnt-- restores it and the link is not enqueued.
C20_InterruptWrittenOnCancelOnly ==
    [][/\ interrupt' # interrupt =>
              /\ cpc = "select"
              /\ cpc' = "range"
              /\ ctx
              /\ interrupt'
       /\ interrupt => interrupt'
       /\ ~ctx' => ~interrupt'
       /\ (cpc # "select" /\ cpc' = "select") => cnt' = cnt + 1
       /\ (cpc = "select" /\ cpc' = "select") => cnt' = cnt
       /\ CancelWins =>
              /\ ctx
              /\ cnt' = cnt - 1
              /\ interrupt'
              /\ tasks' = tasks
              /\ enq' = enq
              /\ visited' = visited]_vars

\* C20 witness: cancellation has won the select for a link, which is in
\* visited and was never enqueued, and the controller is back in its range.
C20_Witness ==
    /\ interrupt
    /\ ctx
    /\ cpc = "range"
    /\ link = 0
    /\ \E u \in visited : u # startURL /\ enq[u] = 0

====
